---- MODULE Spec2Model ----
(***************************************************************************)
(* A model of the Jablotron cloud API client (jablotronpy.Jablotron).      *)
(*                                                                         *)
(* Python values are represented as follows.                               *)
(*   - str            : a TLA+ string; the strings on which the code does  *)
(*                      character work (str.upper) are sequences of        *)
(*                      one-character strings.                             *)
(*   - None           : the string "None" where the Python type is         *)
(*                      str | None or float | None (no str value of the    *)
(*                      model is "None"); a float is written as its        *)
(*                      decimal numeral.  NoneObj where the Python type is *)
(*                      dict | None.                                       *)
(*   - dict           : a function whose domain is the set of keys.        *)
(*   - list           : a sequence.                                        *)
(* A method is an operator that takes the receiver (the record of the      *)
(* instance's attributes), the arguments and, when it talks to the server, *)
(* the response the server gives to its POST.  It yields the receiver      *)
(* afterwards, the exception raised (NoException when it returns), the     *)
(* returned value and the list of HTTP requests it sent.                   *)
(***************************************************************************)
EXTENDS Integers, Sequences, FiniteSets, TLC

VARIABLES HEADERS, clients, call

vars == <<HEADERS, clients, call>>

-----------------------------------------------------------------------------
(* Python values *)

None == "None"

NoneObj == [NoneType |-> TRUE]

EmptyDict == <<>>

\* dict.get(key, default)
DictGet(d, key, default) ==
    IF key \in DOMAIN d THEN d[key] ELSE default

\* d[key] = value
SetItem(d, key, value) ==
    [k \in (DOMAIN d) \cup {key} |-> IF k = key THEN value ELSE d[k]]

\* truth value of a str | None
Truthy(s) == s # None /\ s # ""

LowerCase ==
    <<"a", "b", "c", "d", "e", "f", "g", "h", "i", "j", "k", "l", "m",
      "n", "o", "p", "q", "r", "s", "t", "u", "v", "w", "x", "y", "z">>

UpperCase ==
    <<"A", "B", "C", "D", "E", "F", "G", "H", "I", "J", "K", "L", "M",
      "N", "O", "P", "Q", "R", "S", "T", "U", "V", "W", "X", "Y", "Z">>

UpperChar(c) ==
    IF \E i \in 1..Len(LowerCase) : LowerCase[i] = c
    THEN UpperCase[CHOOSE i \in 1..Len(LowerCase) : LowerCase[i] = c]
    ELSE c

\* str.upper() on a sequence of characters
upper(s) == [i \in 1..Len(s) |-> UpperChar(s[i])]

LowerChar(c) ==
    IF \E i \in 1..Len(UpperCase) : UpperCase[i] = c
    THEN LowerCase[CHOOSE i \in 1..Len(UpperCase) : UpperCase[i] = c]
    ELSE c

\* str.lower() on a sequence of characters
lower(s) == [i \in 1..Len(s) |-> LowerChar(s[i])]

RECURSIVE Str(_)
\* the string that a sequence of characters spells
Str(s) ==
    IF s = <<>> THEN "" ELSE s[1] \o Str(Tail(s))

\* min of a non-empty set of integers
Min(S) == CHOOSE x \in S : \A y \in S : x <= y

\* json.dumps(value): the JSON text of value, kept as the value it encodes
json_dumps(value) == <<"json.dumps", value>>

-----------------------------------------------------------------------------
(* const.py *)

API_VERSION == "2.2"

API_URL == "https://api.jablonet.net/api/" \o API_VERSION

HEADERS_INITIAL ==
    [k \in {"x-vendor-id", "x-client-version", "accept-encoding", "Accept",
            "Content-Type", "Accept-Language"} |->
        CASE k = "x-vendor-id" -> "JABLOTRON:Jablotron"
          [] k = "x-client-version" -> "MYJ-PUB-ANDROID-15"
          [] k = "accept-encoding" -> "*"
          [] k = "Accept" -> "application/json"
          [] k = "Content-Type" -> "application/json"
          [] k = "Accept-Language" -> "en"]

-----------------------------------------------------------------------------
(* exceptions.py *)

NoException == [type |-> "None", args |-> <<>>]

Exception(type, args) == [type |-> type, args |-> args]

HttpExceptionTypes ==
    {"BadRequestException", "UnauthorizedException",
     "SessionExpiredException", "JablotronApiException"}

\* a method returned value after sending the requests sent
Return(self, value, sent) ==
    [self |-> self, exc |-> NoException, ret |-> value, sent |-> sent]

\* a method raised an exception after sending the requests sent
Raise(self, type, args, sent) ==
    [self |-> self, exc |-> Exception(type, args), ret |-> None, sent |-> sent]

-----------------------------------------------------------------------------
(* The inputs: credentials, arguments and the answers of the server *)

Instances == {"j1"}

USERNAME == "user@example.com"

PASSWORD == "secret"

PinCodes == {None, "", "1234"}

SessionIds == {"", "sid-a", "sid-b"}

\* the statuses the server answers with
StatusCodes == {200, 201, 400, 401, 404, 408, 500}

ResponseText(status) ==
    CASE status = 200 -> "{}"
      [] status = 201 -> "Created"
      [] status = 400 -> "Bad Request"
      [] status = 401 -> "Unauthorized"
      [] status = 404 -> "Not Found"
      [] status = 408 -> "Request Timeout"
      [] status = 500 -> "Internal Server Error"

\* a requests.Response
Response(status, cookies, body) ==
    [status_code |-> status, text |-> ResponseText(status),
     cookies |-> cookies, json |-> body]

\* the answers that are not 200
RejectedResponses ==
    {Response(s, EmptyDict, EmptyDict) : s \in StatusCodes \ {200}}

CookieJars ==
    {EmptyDict} \cup {[k \in {"PHPSESSID"} |-> s] : s \in SessionIds}

LoginResponses ==
    RejectedResponses \cup {Response(200, c, EmptyDict) : c \in CookieJars}

ServiceLists ==
    {<<>>, <<[k \in {"service-id"} |-> 1]>>}

ServiceListBodies ==
    {EmptyDict, [data |-> EmptyDict]}
      \cup {[data |-> [services |-> l]] : l \in ServiceLists}

ServiceListResponses ==
    RejectedResponses \cup {Response(200, EmptyDict, b) : b \in ServiceListBodies}

ServiceIds == {101}

\* service_type, a string the code changes the case of
ServiceTypes == {<<"J", "A", "1", "0", "0">>}

ComponentIds == {"SEC-1", "PG-1"}

\* the desired state of a section, in several letter cases
SectionStates ==
    {<<"A", "R", "M">>, <<"a", "r", "m">>, <<"D", "i", "s", "a", "r", "m">>}

\* the desired state of a programmable gate
GateStates == {<<"O", "N">>, <<"o", "f", "f">>}

\* the states a control response reports
ReportedStates == {"ARM", "arm", "ON"}

ErrorKinds == {"WRONG-CODE", "BUSY", "NOT-ALLOWED"}

ControlError(kind) ==
    [k \in {"component-id", "control-error"} |->
        IF k = "component-id" THEN "SEC-1" ELSE kind]

ComponentState(component_id, state) ==
    [k \in {"component-id", "state"} |->
        IF k = "component-id" THEN component_id ELSE state]

\* the longest control-errors list and the longest states list of a response
MaxErrors == 2

MaxStates == 2

SeqsUpTo(S, n) == UNION {[1..k -> S] : k \in 0..n}

ErrorLists(n) == SeqsUpTo({ControlError(k) : k \in ErrorKinds}, n)

StateLists(n) ==
    SeqsUpTo({ComponentState(c, s) : c \in ComponentIds, s \in ReportedStates}, n)

\* the "data" of a control response: both keys are optional
ControlData(E, S) ==
    {EmptyDict}
      \cup {[k \in {"control-errors"} |-> e] : e \in E}
      \cup {[k \in {"states"} |-> st] : st \in S}
      \cup {[k \in {"control-errors", "states"} |->
                IF k = "control-errors" THEN e ELSE st] : e \in E, st \in S}

ControlResponseData == ControlData(ErrorLists(MaxErrors), StateLists(MaxStates))

\* the control responses of the client's steps: an error, or the states
ControlBodies ==
    {EmptyDict}
      \cup {[data |-> d] : d \in
              {x \in ControlData(ErrorLists(1), StateLists(1)) :
                 /\ "control-errors" \in DOMAIN x => "states" \notin DOMAIN x
                 /\ "states" \in DOMAIN x =>
                       \A i \in 1..Len(x["states"]) :
                           x["states"][i]["state"] \in {"ARM", "ON"}}}

\* a response whose WRONG-CODE entry is not the first of its control errors
WrongCodeSecondBody ==
    [data |-> [k \in {"control-errors"} |->
                  <<ControlError("BUSY"), ControlError("WRONG-CODE")>>]]

ControlResponses ==
    RejectedResponses
        \cup {Response(200, EmptyDict, b) : b \in ControlBodies \cup {WrongCodeSecondBody}}

ThermoDeviceIds == {"TH-1", "TH-2"}

HeatingModes == {None, "MANUAL", "SCHEDULED", "OFF", "ON"}

\* temperature: float | None
Temperatures == {None, "0", "21.5"}

ThermoState(object_device_id) ==
    [k \in {"object-device-id", "temperature"} |->
        IF k = "object-device-id" THEN object_device_id ELSE "21.5"]

ThermoBodies ==
    {EmptyDict, [data |-> EmptyDict],
     [data |-> [k \in {"control-errors"} |-> <<ControlError("WRONG-CODE")>>]],
     [data |-> [k \in {"control-errors", "states"} |->
                   IF k = "control-errors" THEN <<>> ELSE <<ThermoState("TH-1")>>]],
     [data |-> [k \in {"states"} |-> <<ThermoState("TH-2"), ThermoState("TH-1")>>]],
     [data |-> [k \in {"states"} |->
                   <<ThermoState("TH-2"), ThermoState("TH-1"),
                     [ThermoState("TH-1") EXCEPT !["temperature"] = "18"]>>]],
     [data |-> [k \in {"control-errors", "states"} |->
                   IF k = "control-errors"
                   THEN <<ControlError("BUSY"), ControlError("WRONG-CODE")>>
                   ELSE <<ThermoState("TH-1")>>]]}

ThermoResponses ==
    RejectedResponses \cup {Response(200, EmptyDict, b) : b \in ThermoBodies}

\* the longest states list and the longest thermo-devices list of a response
\* of thermoDevicesGet.json
MaxThermoStates == 2

MaxThermoDevices == 2

\* the states of a thermo device: temperature and last-temperature-time may
\* be missing
ThermoDeviceStates ==
    UNION {{[k \in {"object-device-id"} |-> d],
            [k \in {"object-device-id", "temperature", "last-temperature-time"} |->
                CASE k = "object-device-id" -> d
                  [] k = "temperature" -> "0"
                  [] OTHER -> "2024-01-01T00:00:00+0000"]} : d \in ThermoDeviceIds}

\* the details of a thermo device: the name may be missing
ThermoDeviceDetails ==
    UNION {{[k \in {"object-device-id"} |-> d],
            [k \in {"object-device-id", "name"} |->
                IF k = "object-device-id" THEN d ELSE "Hall"]} : d \in ThermoDeviceIds}

\* the "data" of thermoDevicesGet.json: both keys are optional
ThermoDevicesData(S, D) ==
    {EmptyDict}
      \cup {[k \in {"states"} |-> st] : st \in S}
      \cup {[k \in {"thermo-devices"} |-> dv] : dv \in D}
      \cup {[k \in {"states", "thermo-devices"} |->
                IF k = "states" THEN st ELSE dv] : st \in S, dv \in D}

ThermoDevicesResponses ==
    RejectedResponses
      \cup {Response(200, EmptyDict, EmptyDict)}
      \cup {Response(200, EmptyDict, [data |-> d]) :
               d \in ThermoDevicesData(SeqsUpTo(ThermoDeviceStates, MaxThermoStates),
                                       SeqsUpTo(ThermoDeviceDetails, MaxThermoDevices))}

ThermostatSettings == {[id |-> "TH-1", temperature_manual |-> "21.5"]}

SettingsBodies ==
    {[status |-> TRUE, error_status |-> "", error_message |-> ""],
     [status |-> TRUE, error_status |-> None, error_message |-> None],
     [status |-> FALSE, error_status |-> "E42", error_message |-> "update refused"],
     [status |-> FALSE, error_status |-> None, error_message |-> None]}

\* a payload of _send_request_as_form_data
FormPayloads == {[service_data |-> json_dumps(<<>>)]}

SettingsResponses ==
    RejectedResponses \cup {Response(200, EmptyDict, b) : b \in SettingsBodies}

-----------------------------------------------------------------------------
(* jablotronpy.py *)

\* Jablotron.__init__
__init__(username, password, pin_code) ==
    [_username |-> username, _password |-> password, _pin_code |-> pin_code,
     _headers |-> HEADERS]

\* a bug: the codes are tested for None, not for their truth value
_get_provided_pin_or_default_pin_not_none(self, pin_code) ==
    IF pin_code # None THEN Return(self, pin_code, <<>>)
    ELSE IF self._pin_code # None THEN Return(self, self._pin_code, <<>>)
    ELSE Raise(self, "NoPinCodeException",
               <<"Please, provide pin code or set default pin code.">>, <<>>)

\* Jablotron._get_provided_pin_or_default_pin
_get_provided_pin_or_default_pin(self, pin_code) ==
    IF Truthy(pin_code) THEN Return(self, pin_code, <<>>)
    ELSE IF Truthy(self._pin_code) THEN Return(self, self._pin_code, <<>>)
    ELSE Raise(self, "NoPinCodeException",
               <<"Please, provide pin code or set default pin code.">>, <<>>)

\* requests.post(url=..., headers=..., json=payload)
PostJson(self, endpoint, payload) ==
    [url |-> API_URL \o "/" \o endpoint, headers |-> self._headers,
     json |-> payload]

\* a bug: every 2xx status is taken for a success
_send_request_any_2xx(self, endpoint, payload, server) ==
    LET sent == <<PostJson(self, endpoint, payload)>>
        response == server
    IN  CASE response.status_code \in 200..299 -> Return(self, response, sent)
          [] response.status_code = 400 ->
                Raise(self, "BadRequestException",
                      <<"Request is not valid, please review provided parameters.">>, sent)
          [] response.status_code = 401 ->
                Raise(self, "UnauthorizedException",
                      <<"Failed to authenticate using entered credentials or session id expired.">>, sent)
          [] response.status_code = 408 ->
                Raise(self, "SessionExpiredException",
                      <<"Session expired, please re-login.">>, sent)
          [] OTHER -> Raise(self, "JablotronApiException", <<response.text>>, sent)

\* a bug: on 401 and 408 the client logs in again and replays the request, and
\* does so a second time when the replay is answered the same
_send_request_retrying(self, endpoint, payload, server) ==
    LET request == PostJson(self, endpoint, payload)
        login == PostJson(self, "userAuthorize.json",
                          [login |-> self._username, password |-> self._password])
        response == server
    IN  CASE response.status_code = 200 -> Return(self, response, <<request>>)
          [] response.status_code = 400 ->
                Raise(self, "BadRequestException",
                      <<"Request is not valid, please review provided parameters.">>,
                      <<request>>)
          [] response.status_code = 401 ->
                Raise(self, "UnauthorizedException",
                      <<"Failed to authenticate using entered credentials or session id expired.">>,
                      <<request, login, request, login, request>>)
          [] response.status_code = 408 ->
                Raise(self, "SessionExpiredException",
                      <<"Session expired, please re-login.">>,
                      <<request, login, request, login, request>>)
          [] OTHER -> Raise(self, "JablotronApiException", <<response.text>>,
                            <<request>>)

\* a bug: a request answered 400 is sent a second time
_send_request_replaying_400(self, endpoint, payload, server) ==
    LET request == PostJson(self, endpoint, payload)
        response == server
    IN  CASE response.status_code = 200 -> Return(self, response, <<request>>)
          [] response.status_code = 400 ->
                Raise(self, "BadRequestException",
                      <<"Request is not valid, please review provided parameters.">>,
                      <<request, request>>)
          [] response.status_code = 401 ->
                Raise(self, "UnauthorizedException",
                      <<"Failed to authenticate using entered credentials or session id expired.">>,
                      <<request>>)
          [] response.status_code = 408 ->
                Raise(self, "SessionExpiredException",
                      <<"Session expired, please re-login.">>, <<request>>)
          [] OTHER -> Raise(self, "JablotronApiException", <<response.text>>,
                            <<request>>)

\* a bug: on 401 and 408 the session cookie is dropped from the headers
_send_request_dropping_cookie(self, endpoint, payload, server) ==
    LET sent == <<PostJson(self, endpoint, payload)>>
        response == server
        dropped == [self EXCEPT !._headers =
                       [k \in (DOMAIN self._headers) \ {"Cookie"} |-> self._headers[k]]]
    IN  CASE response.status_code = 200 -> Return(self, response, sent)
          [] response.status_code = 400 ->
                Raise(self, "BadRequestException",
                      <<"Request is not valid, please review provided parameters.">>, sent)
          [] response.status_code = 401 ->
                Raise(dropped, "UnauthorizedException",
                      <<"Failed to authenticate using entered credentials or session id expired.">>, sent)
          [] response.status_code = 408 ->
                Raise(dropped, "SessionExpiredException",
                      <<"Session expired, please re-login.">>, sent)
          [] OTHER -> Raise(self, "JablotronApiException", <<response.text>>, sent)

\* Jablotron._send_request; server is the response to the POST
_send_request(self, endpoint, payload, server) ==
    LET sent == <<PostJson(self, endpoint, payload)>>
        response == server
    IN  CASE response.status_code = 200 -> Return(self, response, sent)
          [] response.status_code = 400 ->
                Raise(self, "BadRequestException",
                      <<"Request is not valid, please review provided parameters.">>, sent)
          [] response.status_code = 401 ->
                Raise(self, "UnauthorizedException",
                      <<"Failed to authenticate using entered credentials or session id expired.">>, sent)
          [] response.status_code = 408 ->
                Raise(self, "SessionExpiredException",
                      <<"Session expired, please re-login.">>, sent)
          [] OTHER -> Raise(self, "JablotronApiException", <<response.text>>, sent)

\* a bug: a session cookie that is already set is kept
perform_login_keeps_cookie(self, server) ==
    LET r == _send_request(self, "userAuthorize.json",
                           [login |-> self._username, password |-> self._password],
                           server)
    IN  IF r.exc # NoException THEN r
        ELSE LET session_id == DictGet(r.ret.cookies, "PHPSESSID", None)
             IN  IF session_id = None
                 THEN Raise(r.self, "InvalidSessionIdException",
                            <<"Login response does not contain a valid session id.">>,
                            r.sent)
                 ELSE IF "Cookie" \in DOMAIN r.self._headers
                 THEN Return(r.self, None, r.sent)
                 ELSE Return([r.self EXCEPT !._headers =
                                 SetItem(@, "Cookie", "PHPSESSID=" \o session_id)],
                             None, r.sent)

\* a bug: a client that has a session cookie does not log in again
perform_login_once_only(self, server) ==
    IF "Cookie" \in DOMAIN self._headers
    THEN Return(self, None, <<>>)
    ELSE LET r == _send_request(self, "userAuthorize.json",
                                [login |-> self._username,
                                 password |-> self._password],
                                server)
         IN  IF r.exc # NoException THEN r
             ELSE LET session_id == DictGet(r.ret.cookies, "PHPSESSID", None)
                  IN  IF session_id = None
                      THEN Raise(r.self, "InvalidSessionIdException",
                                 <<"Login response does not contain a valid session id.">>,
                                 r.sent)
                      ELSE Return([r.self EXCEPT !._headers =
                                      SetItem(@, "Cookie", "PHPSESSID=" \o session_id)],
                                  None, r.sent)

\* a bug: the session id is stored without the name of the cookie
perform_login_bare_session_id(self, server) ==
    LET r == _send_request(self, "userAuthorize.json",
                           [login |-> self._username, password |-> self._password],
                           server)
    IN  IF r.exc # NoException THEN r
        ELSE LET session_id == DictGet(r.ret.cookies, "PHPSESSID", None)
             IN  IF session_id = None
                 THEN Raise(r.self, "InvalidSessionIdException",
                            <<"Login response does not contain a valid session id.">>,
                            r.sent)
                 ELSE Return([r.self EXCEPT !._headers =
                                 SetItem(@, "Cookie", session_id)],
                             None, r.sent)

\* Jablotron.perform_login
perform_login(self, server) ==
    LET r == _send_request(self, "userAuthorize.json",
                           [login |-> self._username, password |-> self._password],
                           server)
    IN  IF r.exc # NoException THEN r
        ELSE LET session_id == DictGet(r.ret.cookies, "PHPSESSID", None)
             IN  IF session_id = None
                 THEN Raise(r.self, "InvalidSessionIdException",
                            <<"Login response does not contain a valid session id.">>,
                            r.sent)
                 ELSE Return([r.self EXCEPT !._headers =
                                 SetItem(@, "Cookie", "PHPSESSID=" \o session_id)],
                             None, r.sent)

\* Jablotron.get_services
get_services(self, server) ==
    LET r == _send_request(self, "serviceListGet.json",
                           ("list-type" :> "EXTENDED" @@ "visibility" :> "DEFAULT"),
                           server)
    IN  IF r.exc # NoException THEN r
        ELSE Return(r.self,
                    DictGet(DictGet(r.ret.json, "data", EmptyDict), "services", <<>>),
                    r.sent)

\* the payload of thermoDevicesGet.json
ThermoDevicesPayload(service_id) ==
    [k \in {"connect-device", "list-type", "service-id", "service-states"} |->
        CASE k = "connect-device" -> TRUE
          [] k = "list-type" -> "FULL"
          [] k = "service-id" -> service_id
          [] OTHER -> FALSE]

\* {d["object-device-id"]: d for d in devices}: a later element replaces an
\* earlier one of the same id
device_by_id(devices) ==
    [id \in {devices[i]["object-device-id"] : i \in 1..Len(devices)} |->
        LET same == {i \in 1..Len(devices) : devices[i]["object-device-id"] = id}
        IN  devices[CHOOSE i \in same : \A k \in same : k <= i]]

\* the entry get_thermo_devices makes of a state
ThermoDeviceEntry(state, by_id) ==
    LET dev_id == state["object-device-id"]
        meta == DictGet(by_id, dev_id, EmptyDict)
    IN  [k \in {"object-device-id", "name", "temperature",
                "last-temperature-time", "thermo-device", "state"} |->
            CASE k = "object-device-id" -> dev_id
              [] k = "name" -> DictGet(meta, "name", "")
              [] k = "temperature" -> DictGet(state, "temperature", None)
              [] k = "last-temperature-time" ->
                    DictGet(state, "last-temperature-time", None)
              [] k = "thermo-device" -> DictGet(by_id, dev_id, EmptyDict)
              [] OTHER -> state]

\* the states of q whose device id is in ids, in their order
RECURSIVE SelectStates(_, _)
SelectStates(q, ids) ==
    IF q = <<>> THEN <<>>
    ELSE IF Head(q)["object-device-id"] \in ids
         THEN <<Head(q)>> \o SelectStates(Tail(q), ids)
         ELSE SelectStates(Tail(q), ids)

\* a bug: a state whose device is not among thermo-devices is left out
get_thermo_devices_inner_join(self, service_id, service_type, server) ==
    LET r == _send_request(self, Str(service_type) \o "/thermoDevicesGet.json",
                           ThermoDevicesPayload(service_id), server)
    IN  IF r.exc # NoException THEN r
        ELSE LET data == DictGet(r.ret.json, "data", EmptyDict)
                 devices == DictGet(data, "thermo-devices", <<>>)
                 by_id == device_by_id(devices)
                 states == SelectStates(DictGet(data, "states", <<>>), DOMAIN by_id)
             IN  Return(r.self,
                        [n \in 1..Len(states) |-> ThermoDeviceEntry(states[n], by_id)],
                        r.sent)

\* Jablotron.get_thermo_devices
get_thermo_devices(self, service_id, service_type, server) ==
    LET r == _send_request(self, Str(service_type) \o "/thermoDevicesGet.json",
                           ThermoDevicesPayload(service_id), server)
    IN  IF r.exc # NoException THEN r
        ELSE LET data == DictGet(r.ret.json, "data", EmptyDict)
                 states == DictGet(data, "states", <<>>)
                 devices == DictGet(data, "thermo-devices", <<>>)
                 by_id == device_by_id(devices)
             IN  Return(r.self,
                        [n \in 1..Len(states) |-> ThermoDeviceEntry(states[n], by_id)],
                        r.sent)

\* requests.post(url=..., headers={**headers, "Content-Type": ...}, data=payload)
PostForm(self, endpoint, payload) ==
    [url |-> API_URL \o "/" \o endpoint,
     headers |-> SetItem(self._headers, "Content-Type",
                         "application/x-www-form-urlencoded; charset=utf-8"),
     data |-> payload]

\* a bug: the case of 408 is missing and 408 falls to the default case
_send_request_as_form_data_without_408(self, endpoint, payload, server) ==
    LET sent == <<PostForm(self, endpoint, payload)>>
        response == server
    IN  CASE response.status_code = 200 -> Return(self, response, sent)
          [] response.status_code = 400 ->
                Raise(self, "BadRequestException",
                      <<"Request is not valid, please review provided parameters.">>, sent)
          [] response.status_code = 401 ->
                Raise(self, "UnauthorizedException",
                      <<"Failed to authenticate using entered credentials or session id expired.">>, sent)
          [] OTHER -> Raise(self, "JablotronApiException", <<response.text>>, sent)

\* a bug: the Content-Type of the form is written into the client's headers
_send_request_as_form_data_in_place(self, endpoint, payload, server) ==
    LET sent == <<PostForm(self, endpoint, payload)>>
        response == server
        changed == [self EXCEPT !._headers = sent[1].headers]
    IN  CASE response.status_code = 200 -> Return(changed, response, sent)
          [] response.status_code = 400 ->
                Raise(changed, "BadRequestException",
                      <<"Request is not valid, please review provided parameters.">>, sent)
          [] response.status_code = 401 ->
                Raise(changed, "UnauthorizedException",
                      <<"Failed to authenticate using entered credentials or session id expired.">>, sent)
          [] response.status_code = 408 ->
                Raise(changed, "SessionExpiredException",
                      <<"Session expired, please re-login.">>, sent)
          [] OTHER -> Raise(changed, "JablotronApiException", <<response.text>>, sent)

\* Jablotron._send_request_as_form_data; server is the response to the POST
_send_request_as_form_data(self, endpoint, payload, server) ==
    LET sent == <<PostForm(self, endpoint, payload)>>
        response == server
    IN  CASE response.status_code = 200 -> Return(self, response, sent)
          [] response.status_code = 400 ->
                Raise(self, "BadRequestException",
                      <<"Request is not valid, please review provided parameters.">>, sent)
          [] response.status_code = 401 ->
                Raise(self, "UnauthorizedException",
                      <<"Failed to authenticate using entered credentials or session id expired.">>, sent)
          [] response.status_code = 408 ->
                Raise(self, "SessionExpiredException",
                      <<"Session expired, please re-login.">>, sent)
          [] OTHER -> Raise(self, "JablotronApiException", <<response.text>>, sent)

\* a bug: a states entry that matches is accepted before the control errors
\* are examined
_was_control_action_successful_states_first(response_data, component_id, state) ==
    LET errors == DictGet(response_data, "control-errors", <<>>)
        components == DictGet(response_data, "states", <<>>)
        reached == \E i \in 1..Len(components) :
                       /\ components[i]["component-id"] = component_id
                       /\ components[i]["state"] = Str(upper(state))
    IN  IF errors # <<>> /\ ~reached
        THEN LET error == errors[1]
             IN  IF error["control-error"] = "WRONG-CODE"
                 THEN Raise(NoneObj, "IncorrectPinCodeException",
                            <<"Provided pin code is not valid.">>, <<>>)
                 ELSE Raise(NoneObj, "ControlActionException",
                            <<"Control action failed with unexpected error.", error>>,
                            <<>>)
        ELSE Return(NoneObj, reached, <<>>)

\* a bug: the desired state is compared as given, not uppercased
_was_control_action_successful_as_given(response_data, component_id, state) ==
    LET errors == DictGet(response_data, "control-errors", <<>>)
        components == DictGet(response_data, "states", <<>>)
    IN  IF errors # <<>>
        THEN LET error == errors[1]
             IN  IF error["control-error"] = "WRONG-CODE"
                 THEN Raise(NoneObj, "IncorrectPinCodeException",
                            <<"Provided pin code is not valid.">>, <<>>)
                 ELSE Raise(NoneObj, "ControlActionException",
                            <<"Control action failed with unexpected error.", error>>,
                            <<>>)
        ELSE Return(NoneObj,
                    \E i \in 1..Len(components) :
                        /\ components[i]["component-id"] = component_id
                        /\ components[i]["state"] = Str(state),
                    <<>>)

\* Jablotron._was_control_action_successful (a static method)
_was_control_action_successful(response_data, component_id, state) ==
    LET errors == DictGet(response_data, "control-errors", <<>>)
        components == DictGet(response_data, "states", <<>>)
    IN  IF errors # <<>>
        THEN \* the body of the loop raises in its first iteration
             LET error == errors[1]
             IN  IF error["control-error"] = "WRONG-CODE"
                 THEN Raise(NoneObj, "IncorrectPinCodeException",
                            <<"Provided pin code is not valid.">>, <<>>)
                 ELSE Raise(NoneObj, "ControlActionException",
                            <<"Control action failed with unexpected error.", error>>,
                            <<>>)
        ELSE Return(NoneObj,
                    \E i \in 1..Len(components) :
                        /\ components[i]["component-id"] = component_id
                        /\ components[i]["state"] = Str(upper(state)),
                    <<>>)

\* the payload of controlComponent.json
ControlComponentPayload(action, service_id, component_id, state, pin_code, force) ==
    [k \in {"service-id", "authorization", "control-components"} |->
        CASE k = "service-id" -> service_id
          [] k = "authorization" -> [k2 \in {"authorization-code"} |-> pin_code]
          [] k = "control-components" ->
                <<[k2 \in {"actions", "component-id", "force"} |->
                     CASE k2 = "actions" ->
                              [action |-> action, value |-> Str(upper(state))]
                       [] k2 = "component-id" -> component_id
                       [] k2 = "force" -> force]>>]

\* a bug: the code given by the caller is sent as it is, without resolving it
ControlComponent_unresolved(self, action, service_id, component_id, state, pin_code, service_type, force, server) ==
    LET r == _send_request(
                 self, Str(service_type) \o "/controlComponent.json",
                 ControlComponentPayload(action, service_id, component_id,
                                         state, pin_code, force),
                 server)
    IN  IF r.exc # NoException THEN r
        ELSE LET response_data == DictGet(r.ret.json, "data", EmptyDict)
                 w == _was_control_action_successful(
                          response_data, component_id, state)
             IN  [w EXCEPT !.self = r.self, !.sent = r.sent]

\* the body shared by control_section and control_programmable_gate
ControlComponent(self, action, service_id, component_id, state, pin_code, service_type, force, server) ==
    LET p == _get_provided_pin_or_default_pin(self, pin_code)
    IN  IF p.exc # NoException THEN p
        ELSE LET r == _send_request(
                          self, Str(service_type) \o "/controlComponent.json",
                          ControlComponentPayload(action, service_id, component_id,
                                                  state, p.ret, force),
                          server)
             IN  IF r.exc # NoException THEN r
                 ELSE LET response_data == DictGet(r.ret.json, "data", EmptyDict)
                          w == _was_control_action_successful(
                                   response_data, component_id, state)
                      IN  [w EXCEPT !.self = r.self, !.sent = r.sent]

\* Jablotron.control_section
control_section(self, service_id, component_id, state, pin_code, service_type, force, server) ==
    ControlComponent(self, "CONTROL-SECTION", service_id, component_id, state,
                     pin_code, service_type, force, server)

\* Jablotron.control_programmable_gate
control_programmable_gate(self, service_id, component_id, state, pin_code, service_type, force, server) ==
    ControlComponent(self, "CONTROL-PG", service_id, component_id, state,
                     pin_code, service_type, force, server)

\* a bug: the status flag of the response body is not examined
update_service_settings_ignoring_status(self, service_id, thermostat_settings, service_type, server) ==
    LET r == _send_request_as_form_data(
                 self, "updateServiceSettings.json",
                 [service_data |->
                     json_dumps(<<[serviceId |-> service_id,
                                   service |-> Str(lower(service_type)),
                                   data |-> [thermostats |-> <<thermostat_settings>>]]>>)],
                 server)
    IN  IF r.exc # NoException THEN r
        ELSE Return(r.self, r.ret.json, r.sent)

\* Jablotron.update_service_settings
update_service_settings(self, service_id, thermostat_settings, service_type, server) ==
    LET r == _send_request_as_form_data(
                 self, "updateServiceSettings.json",
                 [service_data |->
                     json_dumps(<<[serviceId |-> service_id,
                                   service |-> Str(lower(service_type)),
                                   data |-> [thermostats |-> <<thermostat_settings>>]]>>)],
                 server)
    IN  IF r.exc # NoException THEN r
        ELSE LET response_body == r.ret.json
             IN  IF ~response_body["status"]
                 THEN Raise(r.self, "ControlActionException",
                            <<"Service settings update failed with unexpected error(s):",
                              response_body["error_status"],
                              response_body["error_message"]>>,
                            r.sent)
                 ELSE Return(r.self, response_body, r.sent)

\* a bug: the temperature is tested for its truth value, not for None
ScheduledWithTemperature_truthy(heating_mode, temperature) ==
    heating_mode = "SCHEDULED" /\ temperature \notin {None, "0"}

\* the combination control_thermo_device_with_response rejects
ScheduledWithTemperature(heating_mode, temperature) ==
    heating_mode = "SCHEDULED" /\ temperature # None

\* a bug: the exception carries the first control error only
control_thermo_device_with_response_first_error(self, service_id, object_device_id, heating_mode, temperature, service_type, server) ==
    IF ScheduledWithTemperature(heating_mode, temperature)
    THEN Raise(self, "ControlActionException",
               <<"Temperature cannot be set when setting heating mode to "
                   \o heating_mode \o ".">>,
               <<>>)
    ELSE LET a1 == IF heating_mode # None
                   THEN SetItem(EmptyDict, "set-heating-mode", heating_mode)
                   ELSE EmptyDict
             actions == IF temperature # None
                        THEN SetItem(a1, "set-temperature", temperature)
                        ELSE a1
             r == _send_request(
                      self, Str(service_type) \o "/controlThermoDevice.json",
                      [k \in {"service-id", "control-components"} |->
                          IF k = "service-id" THEN service_id
                          ELSE <<[k2 \in {"actions", "component-id"} |->
                                    IF k2 = "actions" THEN actions
                                    ELSE object_device_id]>>],
                      server)
         IN  IF r.exc # NoException THEN r
             ELSE LET response_body == r.ret.json
                      response_data == DictGet(response_body, "data", EmptyDict)
                      response_errors == DictGet(response_data, "control-errors", <<>>)
                      states == DictGet(response_data, "states", <<>>)
                      found == {i \in 1..Len(states) :
                                   states[i]["object-device-id"] = object_device_id}
                  IN  IF Len(response_errors) > 0
                      THEN Raise(r.self, "ControlActionException",
                                 <<"Thermo device control failed with unexpected error(s):",
                                   response_errors[1]>>,
                                 r.sent)
                      ELSE Return(r.self,
                                  IF found = {} THEN NoneObj ELSE states[Min(found)],
                                  r.sent)

\* Jablotron.control_thermo_device_with_response
control_thermo_device_with_response(self, service_id, object_device_id, heating_mode, temperature, service_type, server) ==
    IF ScheduledWithTemperature(heating_mode, temperature)
    THEN Raise(self, "ControlActionException",
               <<"Temperature cannot be set when setting heating mode to "
                   \o heating_mode \o ".">>,
               <<>>)
    ELSE LET a1 == IF heating_mode # None
                   THEN SetItem(EmptyDict, "set-heating-mode", heating_mode)
                   ELSE EmptyDict
             actions == IF temperature # None
                        THEN SetItem(a1, "set-temperature", temperature)
                        ELSE a1
             r == _send_request(
                      self, Str(service_type) \o "/controlThermoDevice.json",
                      [k \in {"service-id", "control-components"} |->
                          IF k = "service-id" THEN service_id
                          ELSE <<[k2 \in {"actions", "component-id"} |->
                                    IF k2 = "actions" THEN actions
                                    ELSE object_device_id]>>],
                      server)
         IN  IF r.exc # NoException THEN r
             ELSE LET response_body == r.ret.json
                      response_data == DictGet(response_body, "data", EmptyDict)
                      response_errors == DictGet(response_data, "control-errors", <<>>)
                      states == DictGet(response_data, "states", <<>>)
                      found == {i \in 1..Len(states) :
                                   states[i]["object-device-id"] = object_device_id}
                  IN  IF Len(response_errors) > 0
                      THEN Raise(r.self, "ControlActionException",
                                 <<"Thermo device control failed with unexpected error(s):">>
                                     \o response_errors,
                                 r.sent)
                      ELSE Return(r.self,
                                  IF found = {} THEN NoneObj ELSE states[Min(found)],
                                  r.sent)

\* Jablotron.control_thermo_device
control_thermo_device(self, service_id, object_device_id, heating_mode, temperature, service_type, server) ==
    LET r == control_thermo_device_with_response(
                 self, service_id, object_device_id, heating_mode, temperature,
                 service_type, server)
    IN  IF r.exc # NoException THEN r
        ELSE Return(r.self, r.ret # NoneObj, r.sent)

-----------------------------------------------------------------------------
(* The operations of a client, as steps *)

\* the record of a finished call of method op on instance self
Called(op, self, args, server, r) ==
    [op |-> op, phase |-> "done", self |-> self, args |-> args,
     server |-> server, exc |-> r.exc, ret |-> r.ret, sent |-> r.sent]

NoServer == Response(200, EmptyDict, EmptyDict)

\* no call is in progress and the caller has taken the result of the last one
IdleCall ==
    [op |-> "idle", phase |-> "idle", self |-> "none", args |-> <<>>,
     server |-> NoServer, exc |-> NoException, ret |-> None, sent |-> <<>>]

\* the caller calls method op of instance self, which runs to its end
Finish(op, self, args, server, r) ==
    /\ call.phase = "idle"
    /\ clients' = [clients EXCEPT ![self] = r.self]
    /\ call' = Called(op, self, args, server, r)
    /\ UNCHANGED HEADERS

\* the caller takes the result (the value or the exception) of a finished call
TakeResult ==
    /\ call.phase = "done"
    /\ call' = IdleCall
    /\ UNCHANGED <<HEADERS, clients>>

Init ==
    /\ HEADERS = HEADERS_INITIAL
    /\ \E pin_code \in PinCodes :
          clients = [i \in Instances |-> __init__(USERNAME, PASSWORD, pin_code)]
    /\ call = IdleCall

GetProvidedPinOrDefaultPin(self) ==
    \E pin_code \in PinCodes :
        Finish("_get_provided_pin_or_default_pin", self, [pin_code |-> pin_code],
               NoServer, _get_provided_pin_or_default_pin(clients[self], pin_code))

SendRequest(self) ==
    \E endpoint \in {"serviceListGet.json"}, server \in ServiceListResponses :
        Finish("_send_request", self, [endpoint |-> endpoint], server,
               _send_request(clients[self], endpoint,
                             ("list-type" :> "EXTENDED" @@ "visibility" :> "DEFAULT"),
                             server))

SendRequestAsFormData(self) ==
    \E endpoint \in {"updateServiceSettings.json"}, payload \in FormPayloads, server \in SettingsResponses :
        Finish("_send_request_as_form_data", self,
               [endpoint |-> endpoint, payload |-> payload], server,
               _send_request_as_form_data(clients[self], endpoint, payload, server))

PerformLogin(self) ==
    \E server \in LoginResponses :
        Finish("perform_login", self, <<>>, server,
               perform_login(clients[self], server))

GetServices(self) ==
    \E server \in ServiceListResponses :
        Finish("get_services", self, <<>>, server,
               get_services(clients[self], server))

ControlSection(self) ==
    \E service_id \in ServiceIds, component_id \in ComponentIds,
       state \in SectionStates, pin_code \in PinCodes,
       service_type \in ServiceTypes, server \in ControlResponses :
        Finish("control_section", self,
               [service_id |-> service_id, component_id |-> component_id,
                state |-> state, pin_code |-> pin_code,
                service_type |-> service_type],
               server,
               control_section(clients[self], service_id, component_id, state,
                               pin_code, service_type, FALSE, server))

ControlProgrammableGate(self) ==
    \E service_id \in ServiceIds, component_id \in ComponentIds,
       state \in GateStates, pin_code \in PinCodes,
       service_type \in ServiceTypes, server \in ControlResponses :
        Finish("control_programmable_gate", self,
               [service_id |-> service_id, component_id |-> component_id,
                state |-> state, pin_code |-> pin_code,
                service_type |-> service_type],
               server,
               control_programmable_gate(clients[self], service_id, component_id,
                                         state, pin_code, service_type, FALSE,
                                         server))

ControlThermoDeviceWithResponse(self) ==
    \E service_id \in ServiceIds, object_device_id \in ThermoDeviceIds,
       heating_mode \in HeatingModes, temperature \in Temperatures,
       service_type \in ServiceTypes, server \in ThermoResponses :
        Finish("control_thermo_device_with_response", self,
               [service_id |-> service_id, object_device_id |-> object_device_id,
                heating_mode |-> heating_mode, temperature |-> temperature,
                service_type |-> service_type],
               server,
               control_thermo_device_with_response(
                   clients[self], service_id, object_device_id, heating_mode,
                   temperature, service_type, server))

ControlThermoDevice(self) ==
    \E service_id \in ServiceIds, object_device_id \in ThermoDeviceIds,
       heating_mode \in HeatingModes, temperature \in Temperatures,
       service_type \in ServiceTypes, server \in ThermoResponses :
        Finish("control_thermo_device", self,
               [service_id |-> service_id, object_device_id |-> object_device_id,
                heating_mode |-> heating_mode, temperature |-> temperature,
                service_type |-> service_type],
               server,
               control_thermo_device(
                   clients[self], service_id, object_device_id, heating_mode,
                   temperature, service_type, server))

UpdateServiceSettings(self) ==
    \E service_id \in ServiceIds, thermostat_settings \in ThermostatSettings,
       service_type \in ServiceTypes, server \in SettingsResponses :
        Finish("update_service_settings", self,
               [service_id |-> service_id,
                thermostat_settings |-> thermostat_settings,
                service_type |-> service_type],
               server,
               update_service_settings(clients[self], service_id,
                                       thermostat_settings, service_type, server))

Next ==
    \/ TakeResult
    \/ \E self \in Instances :
        \/ GetProvidedPinOrDefaultPin(self)
        \/ SendRequest(self)
        \/ SendRequestAsFormData(self)
        \/ PerformLogin(self)
        \/ GetServices(self)
        \/ ControlSection(self)
        \/ ControlProgrammableGate(self)
        \/ ControlThermoDeviceWithResponse(self)
        \/ ControlThermoDevice(self)
        \/ UpdateServiceSettings(self)

Spec == Init /\ [][Next]_vars

-----------------------------------------------------------------------------
(* The evaluation of a control response, on its own: every response data   *)
(* within the bounds, every component and every desired state.             *)

InitControlOutcome ==
    /\ HEADERS = HEADERS_INITIAL
    /\ clients = [i \in Instances |-> __init__(USERNAME, PASSWORD, None)]
    /\ \E response_data \in ControlResponseData, component_id \in ComponentIds,
          state \in SectionStates \cup GateStates :
          call = [op |-> "_was_control_action_successful", phase |-> "called",
                  self |-> "static",
                  args |-> [response_data |-> response_data,
                            component_id |-> component_id, state |-> state],
                  server |-> NoServer, exc |-> NoException, ret |-> None,
                  sent |-> <<>>]

WasControlActionSuccessful ==
    /\ call.phase = "called"
    /\ LET w == _was_control_action_successful(
                    call.args.response_data, call.args.component_id,
                    call.args.state)
       IN  call' = [call EXCEPT !.phase = "done", !.exc = w.exc, !.ret = w.ret]
    /\ UNCHANGED <<HEADERS, clients>>

NextControlOutcome == WasControlActionSuccessful

SpecControlOutcome == InitControlOutcome /\ [][NextControlOutcome]_vars

-----------------------------------------------------------------------------
(* Call sites that call one client without serialising their calls.  The   *)
(* client has no lock and starts no thread: a call blocks in requests.post *)
(* between the sending of its request and the arrival of the response, and *)
(* another call site may run meanwhile.  Here call holds, for every call   *)
(* site, the call it is in, and the session id of the perform_login that   *)
(* returned last.                                                          *)

CallSites == {"t1", "t2"}

IdleSite ==
    [op |-> "idle", phase |-> "idle", self |-> "none", server |-> NoServer,
     exc |-> NoException, sent |-> <<>>]

InitConcurrent ==
    /\ HEADERS = HEADERS_INITIAL
    /\ clients = [i \in Instances |-> __init__(USERNAME, PASSWORD, None)]
    /\ call = [sites |-> [t \in CallSites |-> IdleSite], last_login |-> None]

\* call site t calls perform_login, which posts its request with the headers
\* the client has now (line 74) and waits for the response
BeginLogin(t, self) ==
    /\ call.sites[t].phase = "idle"
    /\ call' = [call EXCEPT !.sites[t] =
                   [op |-> "perform_login", phase |-> "outstanding",
                    self |-> self, server |-> NoServer, exc |-> NoException,
                    sent |-> perform_login(clients[self], NoServer).sent]]
    /\ UNCHANGED <<HEADERS, clients>>

\* call site t calls get_services, likewise
BeginGetServices(t, self) ==
    /\ call.sites[t].phase = "idle"
    /\ call' = [call EXCEPT !.sites[t] =
                   [op |-> "get_services", phase |-> "outstanding",
                    self |-> self, server |-> NoServer, exc |-> NoException,
                    sent |-> get_services(clients[self], NoServer).sent]]
    /\ UNCHANGED <<HEADERS, clients>>

\* the response to the request of call site t arrives: requests.post returns
ReceiveResponse(t) ==
    /\ call.sites[t].phase = "outstanding"
    /\ \E server \in IF call.sites[t].op = "perform_login"
                      THEN LoginResponses ELSE ServiceListResponses :
          call' = [call EXCEPT !.sites[t].phase = "received",
                               !.sites[t].server = server]
    /\ UNCHANGED <<HEADERS, clients>>

\* perform_login of call site t runs from the return of the post to its end:
\* it raises, or writes the Cookie entry of the headers the client has now
\* (line 158) and returns
EndLogin(t) ==
    /\ call.sites[t].phase = "received"
    /\ call.sites[t].op = "perform_login"
    /\ LET self == call.sites[t].self
           r == perform_login(clients[self], call.sites[t].server)
       IN  /\ clients' = [clients EXCEPT ![self] = r.self]
           /\ call' = [call EXCEPT
                          !.sites[t].phase = "idle",
                          !.sites[t].exc = r.exc,
                          !.last_login =
                              IF r.exc = NoException
                              THEN DictGet(call.sites[t].server.cookies,
                                           "PHPSESSID", None)
                              ELSE @]
    /\ UNCHANGED HEADERS

\* get_services of call site t runs from the return of the post to its end
EndGetServices(t) ==
    /\ call.sites[t].phase = "received"
    /\ call.sites[t].op = "get_services"
    /\ LET self == call.sites[t].self
           r == get_services(clients[self], call.sites[t].server)
       IN  /\ clients' = [clients EXCEPT ![self] = r.self]
           /\ call' = [call EXCEPT !.sites[t].phase = "idle",
                                   !.sites[t].exc = r.exc]
    /\ UNCHANGED HEADERS

NextConcurrent ==
    \E t \in CallSites :
        \/ \E self \in Instances : BeginLogin(t, self)
        \/ \E self \in Instances : BeginGetServices(t, self)
        \/ ReceiveResponse(t)
        \/ EndLogin(t)
        \/ EndGetServices(t)

SpecConcurrent == InitConcurrent /\ [][NextConcurrent]_vars

-----------------------------------------------------------------------------
(* The list of thermo devices, on its own: every states list and every     *)
(* thermo-devices list within the bounds.                                  *)

GetThermoDevices(self) ==
    \E service_id \in ServiceIds, service_type \in ServiceTypes, server \in ThermoDevicesResponses :
        Finish("get_thermo_devices", self,
               [service_id |-> service_id, service_type |-> service_type], server,
               get_thermo_devices(clients[self], service_id, service_type, server))

NextThermoDevices ==
    \/ TakeResult
    \/ \E self \in Instances : GetThermoDevices(self)

SpecThermoDevices == Init /\ [][NextThermoDevices]_vars

-----------------------------------------------------------------------------
(* Several clients in one process.  clients holds the clients constructed  *)
(* so far.  A dict is an object: HEADERS is one, and HEADERS.copy() in      *)
(* __init__ makes a new one for the client, which no other name refers to. *)
(* A write into a dict is seen under every name that refers to it.         *)

InstanceNames == {"j1", "j2"}

\* a bug: self._headers = HEADERS, the dict of the module itself
_headers_object_shared(instance) == "HEADERS"

\* the dict object self._headers of a client refers to: the copy made for it
_headers_object(instance) == instance

\* a method called on client self ended as r: the attributes of self are as
\* the method left them, and so is the dict its _headers refers to
WriteBack(self, r) ==
    /\ clients' =
          [j \in DOMAIN clients |->
              IF j = self THEN r.self
              ELSE IF _headers_object(j) = _headers_object(self)
                   THEN [clients[j] EXCEPT !._headers = r.self._headers]
                   ELSE clients[j]]
    /\ HEADERS' = IF _headers_object(self) = "HEADERS"
                  THEN r.self._headers ELSE HEADERS

InitInstances ==
    /\ HEADERS = HEADERS_INITIAL
    /\ clients = EmptyDict
    /\ call = IdleCall

\* Jablotron(username, password, pin_code)
Construct(self) ==
    /\ self \notin DOMAIN clients
    /\ \E pin_code \in PinCodes :
          /\ clients' = SetItem(clients, self, __init__(USERNAME, PASSWORD, pin_code))
          /\ call' = [IdleCall EXCEPT !.op = "__init__", !.phase = "done",
                                      !.self = self,
                                      !.args = [pin_code |-> pin_code]]
    /\ UNCHANGED HEADERS

LoginOn(self) ==
    /\ self \in DOMAIN clients
    /\ \E server \in LoginResponses :
          LET r == perform_login(clients[self], server)
          IN  /\ WriteBack(self, r)
              /\ call' = Called("perform_login", self, <<>>, server, r)

GetServicesOn(self) ==
    /\ self \in DOMAIN clients
    /\ \E server \in ServiceListResponses :
          LET r == get_services(clients[self], server)
          IN  /\ WriteBack(self, r)
              /\ call' = Called("get_services", self, <<>>, server, r)

NextInstances ==
    \E self \in InstanceNames :
        \/ Construct(self)
        \/ LoginOn(self)
        \/ GetServicesOn(self)

SpecInstances == InitInstances /\ [][NextInstances]_vars

-----------------------------------------------------------------------------
(* Properties *)

Done(op) == call.phase = "done" /\ call.op = op

\* the receiver of the last call, as it is after the call
Receiver == clients[call.self]

\* C1: _send_request returns the response for status 200 and raises
\* BadRequestException for 400, UnauthorizedException for 401,
\* SessionExpiredException for 408 and, for every other status,
\* JablotronApiException with the text of the response; one of the five.
C1_DispatchClassification ==
    Done("_send_request") =>
        LET status == call.server.status_code
        IN  /\ call.exc.type \in {"None"} \cup HttpExceptionTypes
            /\ status = 200 <=> call.exc.type = "None"
            /\ status = 200 => call.ret = call.server
            /\ status = 400 <=> call.exc.type = "BadRequestException"
            /\ status = 401 <=> call.exc.type = "UnauthorizedException"
            /\ status = 408 <=> call.exc.type = "SessionExpiredException"
            /\ status \notin {200, 400, 401, 408}
                  <=> call.exc.type = "JablotronApiException"
            /\ call.exc.type = "JablotronApiException"
                  => call.exc.args = <<call.server.text>>

\* a dispatch answered 201 has raised JablotronApiException with the body
C1_Witness ==
    /\ Done("_send_request")
    /\ call.server.status_code = 201
    /\ call.exc = Exception("JablotronApiException", <<"Created">>)

\* the kinds of the entries of the control-errors list of the last call
ErrorKindsOf(response_data) ==
    LET errors == DictGet(response_data, "control-errors", <<>>)
    IN  {errors[i]["control-error"] : i \in 1..Len(errors)}

\* C2: a control-errors list with a WRONG-CODE entry at any position makes
\* _was_control_action_successful raise IncorrectPinCodeException.
C2_WrongCodeAnywhere ==
    (Done("_was_control_action_successful")
        /\ "WRONG-CODE" \in ErrorKindsOf(call.args.response_data))
    => call.exc.type = "IncorrectPinCodeException"

\* the uppercase spelling of each desired state
UppercaseOf(state) ==
    CASE state = <<"A", "R", "M">> -> "ARM"
      [] state = <<"a", "r", "m">> -> "ARM"
      [] state = <<"D", "i", "s", "a", "r", "m">> -> "DISARM"
      [] state = <<"O", "N">> -> "ON"
      [] state = <<"o", "f", "f">> -> "OFF"

\* C3: with no control error, _was_control_action_successful returns, without
\* raising, whether the states list has an entry with the given component id
\* and the uppercased desired state.
C3_StateReached ==
    (Done("_was_control_action_successful")
        /\ DictGet(call.args.response_data, "control-errors", <<>>) = <<>>)
    => LET states == DictGet(call.args.response_data, "states", <<>>)
           wanted == UppercaseOf(call.args.state)
       IN  /\ call.exc = NoException
           /\ call.ret \in BOOLEAN
           /\ call.ret <=>
                 \E i \in 1..Len(states) :
                     /\ states[i]["component-id"] = call.args.component_id
                     /\ states[i]["state"] = wanted

\* the desired state "arm" was found reached by an entry with state "ARM"
\* that follows an entry of the same component with state "arm"
C3_Witness ==
    /\ Done("_was_control_action_successful")
    /\ call.args.state = <<"a", "r", "m">>
    /\ DictGet(call.args.response_data, "control-errors", <<>>) = <<>>
    /\ DictGet(call.args.response_data, "states", <<>>)
          = <<ComponentState(call.args.component_id, "arm"),
              ComponentState(call.args.component_id, "ARM")>>
    /\ call.ret = TRUE

Url(endpoint) == API_URL \o "/" \o endpoint

ControlComponentUrls ==
    {Url(Str(t) \o "/controlComponent.json") : t \in ServiceTypes}

ControlThermoDeviceUrls ==
    {Url(Str(t) \o "/controlThermoDevice.json") : t \in ServiceTypes}

\* the addresses of the control endpoints
ControlUrls ==
    ControlComponentUrls \cup ControlThermoDeviceUrls
        \cup {Url("updateServiceSettings.json")}

ControlOperations ==
    {"control_section", "control_programmable_gate",
     "control_thermo_device_with_response", "control_thermo_device",
     "update_service_settings"}

\* the authorization code a request carries, None when it carries none
AuthorizationCodeOf(request) ==
    IF "json" \in DOMAIN request /\ "authorization" \in DOMAIN request.json
    THEN DictGet(request.json["authorization"], "authorization-code", None)
    ELSE None

\* C5, as claimed: every request a control operation sends to a control
\* endpoint carries a resolved, non-empty authorization code.
C5_EveryControlRequestCarriesCode ==
    (call.phase = "done" /\ call.op \in ControlOperations) =>
        \A i \in 1..Len(call.sent) :
            call.sent[i].url \in ControlUrls =>
                AuthorizationCodeOf(call.sent[i]) \notin {None, ""}

\* C5, amended: control_section and control_programmable_gate send their
\* request to controlComponent.json with the code given, or the default code
\* when none is given, and that code is neither None nor empty; with neither
\* they raise NoPinCodeException and send nothing.  The requests of
\* control_thermo_device(_with_response) and update_service_settings carry no
\* authorization code.
C5_ComponentControlCarriesCode ==
    /\ (call.phase = "done"
          /\ call.op \in {"control_section", "control_programmable_gate"}) =>
          LET explicit == call.args.pin_code
              default == Receiver._pin_code
              resolved == IF explicit \notin {None, ""} THEN explicit ELSE default
          IN  /\ resolved \in {None, ""} =>
                    call.exc.type = "NoPinCodeException" /\ call.sent = <<>>
              /\ resolved \notin {None, ""} =>
                    /\ Len(call.sent) = 1
                    /\ call.sent[1].url \in ControlComponentUrls
                    /\ AuthorizationCodeOf(call.sent[1]) = resolved
    /\ (call.phase = "done"
          /\ call.op \in {"control_thermo_device_with_response",
                          "control_thermo_device", "update_service_settings"}) =>
          \A i \in 1..Len(call.sent) : AuthorizationCodeOf(call.sent[i]) = None

\* control_section was called with no code on a client with the default code
\* "1234" and sent its request with that code
C5_Witness ==
    /\ Done("control_section")
    /\ call.args.pin_code = None
    /\ Len(call.sent) = 1
    /\ AuthorizationCodeOf(call.sent[1]) = "1234"

ThermoOperations ==
    {"control_thermo_device_with_response", "control_thermo_device"}

\* C6: a thermostat control call with heating mode SCHEDULED and a temperature
\* that is not None (0 included) raises ControlActionException and sends no
\* request; with any other heating mode and temperature it sends one request,
\* to controlThermoDevice.json.
C6_ScheduledWithTemperatureRejected ==
    (call.phase = "done" /\ call.op \in ThermoOperations) =>
        IF call.args.heating_mode = "SCHEDULED"
              /\ call.args.temperature \in Temperatures \ {None}
        THEN call.exc.type = "ControlActionException" /\ call.sent = <<>>
        ELSE Len(call.sent) = 1 /\ call.sent[1].url \in ControlThermoDeviceUrls

\* control_thermo_device was called with SCHEDULED and the temperature 0 and
\* was rejected without a request
C6_Witness ==
    /\ Done("control_thermo_device")
    /\ call.args.heating_mode = "SCHEDULED"
    /\ call.args.temperature = "0"
    /\ call.exc.type = "ControlActionException"
    /\ call.sent = <<>>

\* the Cookie header of a header set, None when there is none
CookieOf(headers) == DictGet(headers, "Cookie", None)

\* the step is a perform_login of instance i that returns
LoginSucceeds(i) ==
    /\ call'.phase = "done"
    /\ call'.op = "perform_login"
    /\ call'.self = i
    /\ call'.exc = NoException

\* C7: a client has no session cookie when it is constructed; a perform_login
\* that returns sets the Cookie header to "PHPSESSID=" followed by the session
\* id of its response, in place of the cookie there was; no other step changes
\* the Cookie header; and every request of a call carries the Cookie header
\* the client has when the call is made (none before the first login).
C7_OneSessionToken ==
    /\ \A i \in Instances : CookieOf(clients[i]._headers) = None
    /\ [][\A i \in Instances :
            /\ IF LoginSucceeds(i)
               THEN CookieOf(clients'[i]._headers)
                       = "PHPSESSID=" \o DictGet(call'.server.cookies, "PHPSESSID", None)
               ELSE CookieOf(clients'[i]._headers) = CookieOf(clients[i]._headers)
            /\ (call'.phase = "done" /\ call'.self = i) =>
                  \A k \in 1..Len(call'.sent) :
                      CookieOf(call'.sent[k].headers) = CookieOf(clients[i]._headers)
         ]_vars

\* a perform_login answered with the session id sid-b has returned on a client
\* and the client's cookie is that session id
C7_Witness ==
    /\ Done("perform_login")
    /\ call.exc = NoException
    /\ call.server.cookies = [k \in {"PHPSESSID"} |-> "sid-b"]
    /\ CookieOf(call.sent[1].headers) = "PHPSESSID=sid-a"
    /\ CookieOf(Receiver._headers) = "PHPSESSID=sid-b"

\* the exception _send_request raises for a status
ExceptionTypeFor(status) ==
    CASE status = 400 -> "BadRequestException"
      [] status = 401 -> "UnauthorizedException"
      [] status = 408 -> "SessionExpiredException"
      [] OTHER -> "JablotronApiException"

LoginUrl == Url("userAuthorize.json")

ExceptionTypes ==
    HttpExceptionTypes
        \cup {"InvalidSessionIdException", "NoPinCodeException",
              "IncorrectPinCodeException", "ControlActionException"}

\* C9: a call of an operation ends with a value or with an exception, having
\* sent at most 3 requests: at most one login besides the request of the
\* operation and at most one replay of that request.
C9_BoundedRequests ==
    call.phase = "done" =>
        LET logins == {k \in 1..Len(call.sent) : call.sent[k].url = LoginUrl}
            others == {k \in 1..Len(call.sent) : call.sent[k].url # LoginUrl}
        IN  /\ call.exc.type \in {"None"} \cup ExceptionTypes
            /\ Len(call.sent) <= 3
            /\ call.op # "perform_login" => Cardinality(logins) <= 1
            /\ Cardinality(others) <= 2

\* get_services was answered 401 and ended with UnauthorizedException after
\* its one request
C9_Witness ==
    /\ Done("get_services")
    /\ call.server.status_code = 401
    /\ call.exc.type = "UnauthorizedException"
    /\ Len(call.sent) = 1

\* the step is a call on a client with a session cookie that ends with
\* UnauthorizedException or SessionExpiredException
ExpiryDetected(i) ==
    /\ call'.phase = "done"
    /\ call'.self = i
    /\ call'.exc.type \in {"UnauthorizedException", "SessionExpiredException"}
    /\ CookieOf(clients[i]._headers) # None

\* C10, as claimed: a call that ends with UnauthorizedException or
\* SessionExpiredException on a client with a session cookie clears or
\* replaces that cookie.
C10_ExpiryInvalidatesToken ==
    [][\A i \in Instances :
          ExpiryDetected(i) =>
              CookieOf(clients'[i]._headers) # CookieOf(clients[i]._headers)
      ]_vars

\* C10, amended: such a call leaves the client's headers, the session cookie
\* among them, as they were.
C10_ExpiryKeepsToken ==
    [][\A i \in Instances :
          ExpiryDetected(i) => clients'[i]._headers = clients[i]._headers
      ]_vars

\* get_services was answered 408 on a client with a session cookie, which the
\* client still has
C10_Witness ==
    /\ Done("get_services")
    /\ call.exc.type = "SessionExpiredException"
    /\ CookieOf(call.sent[1].headers) = "PHPSESSID=sid-a"
    /\ CookieOf(Receiver._headers) = "PHPSESSID=sid-a"

\* C11: a call whose request is answered 400 raises BadRequestException after
\* that one request; a call rejected for want of a code (NoPinCodeException)
\* or for SCHEDULED with a temperature has sent no request; a control call
\* whose response reports WRONG-CODE raises after its one request.  None of
\* them sends a login or a second request.
C11_NoRetryOfOtherFailures ==
    call.phase = "done" =>
        /\ (call.sent # <<>> /\ call.server.status_code = 400) =>
              call.exc.type = "BadRequestException" /\ Len(call.sent) = 1
        /\ call.exc.type = "BadRequestException" => Len(call.sent) = 1
        /\ call.exc.type = "NoPinCodeException" => call.sent = <<>>
        /\ (call.op \in ThermoOperations
              /\ call.args.heating_mode = "SCHEDULED"
              /\ call.args.temperature # None) =>
              call.exc.type = "ControlActionException" /\ call.sent = <<>>
        /\ (call.op \in {"control_section", "control_programmable_gate"}
              /\ call.sent # <<>>
              /\ call.server.status_code = 200
              /\ "WRONG-CODE" \in
                    ErrorKindsOf(DictGet(call.server.json, "data", EmptyDict))) =>
              /\ call.exc.type \in
                    {"IncorrectPinCodeException", "ControlActionException"}
              /\ Len(call.sent) = 1
        /\ call.exc.type = "IncorrectPinCodeException" => Len(call.sent) = 1
        /\ \A k \in 1..Len(call.sent) :
              call.sent[k].url = LoginUrl => call.op = "perform_login"

\* control_section was answered 400 and raised BadRequestException after its
\* one request
C11_Witness ==
    /\ Done("control_section")
    /\ call.server.status_code = 400
    /\ call.exc.type = "BadRequestException"
    /\ Len(call.sent) = 1
    /\ call.sent[1].url \in ControlComponentUrls

\* C12: update_service_settings returns the response body exactly when the
\* request was answered 200 and the body's status flag is true; answered 200
\* with a false status it raises ControlActionException whose arguments are
\* the body's error_status and error_message as received.
C12_SettingsUpdateOutcome ==
    Done("update_service_settings") =>
        LET ok == call.server.status_code = 200
            body == call.server.json
        IN  /\ call.exc = NoException <=> (ok /\ body["status"])
            /\ call.exc = NoException => call.ret = body
            /\ (ok /\ ~body["status"]) =>
                  /\ call.exc.type = "ControlActionException"
                  /\ Len(call.exc.args) = 3
                  /\ call.exc.args[2] = body["error_status"]
                  /\ call.exc.args[3] = body["error_message"]

\* an update answered 200 with a false status flag raised with the body's
\* error status and message
C12_Witness ==
    /\ Done("update_service_settings")
    /\ call.server.status_code = 200
    /\ ~call.server.json["status"]
    /\ call.exc.type = "ControlActionException"
    /\ call.exc.args[2] = "E42"
    /\ call.exc.args[3] = "update refused"

\* C13: for a control response whose control-errors list is not empty and has
\* no WRONG-CODE entry, _was_control_action_successful raises
\* ControlActionException carrying the first entry of the list, whatever the
\* states list holds.
C13_OtherErrorRaisesWithFirst ==
    LET errors == DictGet(call.args.response_data, "control-errors", <<>>)
    IN  (Done("_was_control_action_successful")
            /\ errors # <<>>
            /\ "WRONG-CODE" \notin ErrorKindsOf(call.args.response_data))
        => /\ call.exc.type = "ControlActionException"
           /\ Len(call.exc.args) = 2
           /\ call.exc.args[2] = errors[1]

\* the errors BUSY and NOT-ALLOWED came with a states entry of the component
\* in the desired state, and the exception carries BUSY
C13_Witness ==
    /\ Done("_was_control_action_successful")
    /\ call.args.state = <<"A", "R", "M">>
    /\ DictGet(call.args.response_data, "control-errors", <<>>)
          = <<ControlError("BUSY"), ControlError("NOT-ALLOWED")>>
    /\ DictGet(call.args.response_data, "states", <<>>)
          = <<ComponentState(call.args.component_id, "ARM")>>
    /\ call.exc.type = "ControlActionException"
    /\ call.exc.args[2] = ControlError("BUSY")

\* C14: in every state the client can reach, whatever calls came before and
\* however they ended, perform_login can be called on every client with every
\* answer of the server once the result of the last call is taken; a
\* perform_login answered 200 with a PHPSESSID cookie sends its request,
\* returns and leaves the client with that session id as its cookie, whatever
\* cookie the client had; and a _send_request answered 200 returns the
\* response, every other operation answered 200 raising none of the
\* exceptions of a rejected request.
C14_NoTerminalState ==
    /\ call.phase = "done" => ENABLED TakeResult
    /\ call.phase = "idle" =>
          \A i \in Instances, r \in LoginResponses :
              ENABLED (PerformLogin(i) /\ call'.server = r)
    /\ Done("perform_login") =>
          LET session_id == DictGet(call.server.cookies, "PHPSESSID", None)
          IN  (call.server.status_code = 200 /\ session_id # None) =>
                  /\ call.exc = NoException
                  /\ Len(call.sent) = 1
                  /\ call.sent[1].url = LoginUrl
                  /\ CookieOf(Receiver._headers) = "PHPSESSID=" \o session_id
    /\ (Done("_send_request") /\ call.server.status_code = 200) =>
          call.exc = NoException /\ call.ret = call.server
    /\ (call.phase = "done" /\ call.sent # <<>>
          /\ call.server.status_code = 200) =>
          call.exc.type \notin HttpExceptionTypes

\* a client that held the session id sid-b logged in again and holds sid-a
C14_Witness ==
    /\ Done("perform_login")
    /\ call.exc = NoException
    /\ CookieOf(call.sent[1].headers) = "PHPSESSID=sid-b"
    /\ call.server.cookies = [k \in {"PHPSESSID"} |-> "sid-a"]
    /\ CookieOf(Receiver._headers) = "PHPSESSID=sid-a"

FormContentType == "application/x-www-form-urlencoded; charset=utf-8"

\* C15: no step changes a client's username, password or default pin code; a
\* perform_login that returns changes the client's headers in the Cookie entry
\* only; every other step (a call of any other operation, returning or
\* raising, and a perform_login that raises) leaves the client's headers as
\* they were, update_service_settings with its form Content-Type included.
C15_OnlyLoginWritesCookie ==
    [][\A i \in Instances :
          LET old == clients[i]
              new == clients'[i]
          IN  /\ new._username = old._username
              /\ new._password = old._password
              /\ new._pin_code = old._pin_code
              /\ IF LoginSucceeds(i)
                 THEN /\ DOMAIN new._headers = DOMAIN old._headers \cup {"Cookie"}
                      /\ \A k \in DOMAIN old._headers \ {"Cookie"} :
                            new._headers[k] = old._headers[k]
                 ELSE new._headers = old._headers
      ]_vars

\* update_service_settings sent its request with the form Content-Type and
\* the client's session cookie, and the client's Content-Type is still the
\* one of JSON
C15_Witness ==
    /\ Done("update_service_settings")
    /\ call.sent[1].headers["Content-Type"] = FormContentType
    /\ CookieOf(call.sent[1].headers) = "PHPSESSID=sid-a"
    /\ Receiver._headers["Content-Type"] = "application/json"
    /\ CookieOf(Receiver._headers) = "PHPSESSID=sid-a"

\* the call sites whose perform_login has sent its request and has not
\* received the response
LoginsOutstanding ==
    {t \in CallSites : /\ call.sites[t].op = "perform_login"
                       /\ call.sites[t].phase = "outstanding"}

\* the call sites inside perform_login
LoginsInProgress ==
    {t \in CallSites : /\ call.sites[t].op = "perform_login"
                       /\ call.sites[t].phase # "idle"}

\* C16, as claimed: in every interleaving of the calls made on one client, at
\* most one login request is outstanding, and no perform_login writes the
\* session cookie while another perform_login is between its request and its
\* end.
C16_OneLoginAtATime ==
    /\ [](Cardinality(LoginsOutstanding) <= 1)
    /\ [][\A i \in Instances :
            CookieOf(clients'[i]._headers) # CookieOf(clients[i]._headers)
                => Cardinality(LoginsInProgress) = 1
         ]_vars

\* C16, amended: the client does not serialise its callers, so call sites that
\* call one client at the same time can have two login requests outstanding
\* and can write the session cookie inside each other's exchange; in every
\* interleaving each request carries the cookie the client had when the
\* request was sent, the cookie is written only by a perform_login that
\* returns, and the client's cookie is "PHPSESSID=" followed by the session id
\* of the perform_login that returned last (no cookie before the first).
C16_TokenOfLastLogin ==
    /\ [](\A i \in Instances :
            CookieOf(clients[i]._headers)
                = IF call.last_login = None THEN None
                  ELSE "PHPSESSID=" \o call.last_login)
    /\ [][\A i \in Instances :
            CookieOf(clients'[i]._headers) # CookieOf(clients[i]._headers)
                => \E t \in LoginsInProgress :
                      /\ call.sites[t].phase = "received"
                      /\ call'.sites[t].phase = "idle"
                      /\ call'.sites[t].exc = NoException
         ]_vars

\* call site t1 sent its login request before the client had a cookie and has
\* received the session id sid-a, and is not at its end; meanwhile the
\* perform_login of t2 has returned and the client's cookie is its session id
\* sid-b
C16_Witness ==
    /\ call.sites["t1"].op = "perform_login"
    /\ call.sites["t1"].phase = "received"
    /\ call.sites["t1"].server.cookies = [k \in {"PHPSESSID"} |-> "sid-a"]
    /\ CookieOf(call.sites["t1"].sent[1].headers) = None
    /\ call.sites["t2"].op = "perform_login"
    /\ call.sites["t2"].phase = "idle"
    /\ call.sites["t2"].exc = NoException
    /\ call.last_login = "sid-b"
    /\ CookieOf(clients["j1"]._headers) = "PHPSESSID=sid-b"

\* C17: with several clients in a process, the module's HEADERS never
\* change; a perform_login that returns on one client changes no attribute of
\* another client, its headers and session cookie included; and a client
\* starts with the module's HEADERS as its headers, without a session cookie,
\* also when it is constructed after the login of another client.
C17_SessionPerInstance ==
    /\ [](HEADERS = HEADERS_INITIAL)
    /\ [][\A i \in DOMAIN clients :
            LoginSucceeds(i) =>
                \A j \in DOMAIN clients \ {i} : clients'[j] = clients[j]
         ]_vars
    /\ [][\A j \in DOMAIN clients' \ DOMAIN clients :
            /\ clients'[j]._headers = HEADERS_INITIAL
            /\ CookieOf(clients'[j]._headers) = None
         ]_vars

\* the client j2 has just been constructed, without a session cookie, while
\* the client j1 holds the session id sid-a
C17_Witness ==
    /\ Done("__init__")
    /\ call.self = "j2"
    /\ DOMAIN clients = {"j1", "j2"}
    /\ CookieOf(clients["j1"]._headers) = "PHPSESSID=sid-a"
    /\ CookieOf(clients["j2"]._headers) = None
    /\ CookieOf(HEADERS) = None

\* C18: _send_request_as_form_data ends as _send_request does with the same
\* endpoint, payload and response (200 returns the response, 400, 401 and 408
\* raise their exceptions, any other status raises JablotronApiException with
\* the text of the response); its one request has the same address and the
\* same headers, the session cookie among them, except for Content-Type, and
\* carries the payload as form data where _send_request carries it as JSON.
\* The only operation that sends a form is update_service_settings.
C18_FormDispatchAsJsonDispatch ==
    /\ Done("_send_request_as_form_data") =>
          LET j == _send_request(Receiver, call.args.endpoint,
                                 call.args.payload, call.server)
              form == call.sent[1]
          IN  /\ call.exc = j.exc
              /\ call.exc.type = IF call.server.status_code = 200 THEN "None"
                                 ELSE ExceptionTypeFor(call.server.status_code)
              /\ call.exc.type = "JablotronApiException" =>
                    call.exc.args = <<call.server.text>>
              /\ call.exc = NoException => call.ret = call.server /\ j.ret = call.ret
              /\ Len(call.sent) = 1 /\ Len(j.sent) = 1
              /\ form.url = j.sent[1].url
              /\ DOMAIN form.headers = DOMAIN j.sent[1].headers
              /\ \A k \in DOMAIN form.headers \ {"Content-Type"} :
                    form.headers[k] = j.sent[1].headers[k]
              /\ CookieOf(form.headers) = CookieOf(Receiver._headers)
              /\ form.headers["Content-Type"] = FormContentType
              /\ DOMAIN form = {"url", "headers", "data"}
              /\ DOMAIN j.sent[1] = {"url", "headers", "json"}
              /\ form.data = call.args.payload
              /\ j.sent[1].json = call.args.payload
    /\ call.phase = "done" =>
          \A k \in 1..Len(call.sent) :
              ("data" \in DOMAIN call.sent[k]
                  \/ call.sent[k].headers["Content-Type"] = FormContentType)
              => call.op \in {"_send_request_as_form_data", "update_service_settings"}
    /\ Done("update_service_settings") =>
          /\ Len(call.sent) = 1
          /\ DOMAIN call.sent[1] = {"url", "headers", "data"}
          /\ call.sent[1].url = Url("updateServiceSettings.json")
          /\ call.exc.type \in HttpExceptionTypes =>
                call.exc.type = ExceptionTypeFor(call.server.status_code)
          /\ call.server.status_code # 200 =>
                call.exc.type = ExceptionTypeFor(call.server.status_code)

\* a form sent with the session cookie sid-a was answered 408 and the call
\* raised SessionExpiredException
C18_Witness ==
    /\ Done("_send_request_as_form_data")
    /\ call.server.status_code = 408
    /\ call.exc.type = "SessionExpiredException"
    /\ CookieOf(call.sent[1].headers) = "PHPSESSID=sid-a"
    /\ call.sent[1].headers["Content-Type"] = FormContentType

\* C19: a thermostat control call that is not SCHEDULED with a temperature
\* and is answered 200 raises ControlActionException carrying every entry of
\* control-errors, in order, when that list is not empty (a WRONG-CODE entry
\* included); with no control error control_thermo_device_with_response
\* returns the first entry of states whose object-device-id is the device
\* controlled, None when there is no such entry, and control_thermo_device
\* returns whether there is one, which is whether
\* control_thermo_device_with_response returns a state.
C19_ThermoControlOutcome ==
    (call.phase = "done" /\ call.op \in ThermoOperations
        /\ ~(call.args.heating_mode = "SCHEDULED" /\ call.args.temperature # None)
        /\ call.server.status_code = 200)
    => LET data == DictGet(call.server.json, "data", EmptyDict)
           errors == DictGet(data, "control-errors", <<>>)
           states == DictGet(data, "states", <<>>)
           matching == {i \in 1..Len(states) :
                           states[i]["object-device-id"] = call.args.object_device_id}
           w == control_thermo_device_with_response(
                    Receiver, call.args.service_id, call.args.object_device_id,
                    call.args.heating_mode, call.args.temperature,
                    call.args.service_type, call.server)
       IN  /\ errors # <<>> =>
                 /\ call.exc.type = "ControlActionException"
                 /\ Tail(call.exc.args) = errors
           /\ errors = <<>> =>
                 /\ call.exc = NoException
                 /\ call.op = "control_thermo_device_with_response" =>
                       /\ matching = {} => call.ret = NoneObj
                       /\ matching # {} =>
                             \E i \in matching :
                                 /\ \A k \in matching : i <= k
                                 /\ call.ret = states[i]
                 /\ call.op = "control_thermo_device" =>
                       /\ call.ret = (matching # {})
                       /\ call.ret = (w.ret # NoneObj)

\* the device TH-1 was controlled and the response held two states of it
\* after one of TH-2: the first of the two was returned
C19_Witness ==
    /\ Done("control_thermo_device_with_response")
    /\ call.args.object_device_id = "TH-1"
    /\ call.server.status_code = 200
    /\ DictGet(DictGet(call.server.json, "data", EmptyDict), "states", <<>>)
          = <<ThermoState("TH-2"), ThermoState("TH-1"),
              [ThermoState("TH-1") EXCEPT !["temperature"] = "18"]>>
    /\ call.ret = ThermoState("TH-1")

ThermoDevicesUrls ==
    {Url(Str(t) \o "/thermoDevicesGet.json") : t \in ServiceTypes}

\* C20: answered 200, get_thermo_devices returns one entry for every element
\* of states, in the order of states: the entry's object-device-id,
\* temperature and last-temperature-time are those of the state element (None
\* for one the element lacks) and its state is the element itself; its
\* thermo-device is the element of thermo-devices with the same
\* object-device-id (the last one when several have it) and its name that
\* element's name ("" when it has none); with no such element the name is ""
\* and the thermo-device is empty.  A device without a state has no entry.
C20_ThermoDevicesJoin ==
    (Done("get_thermo_devices") /\ call.server.status_code = 200) =>
        LET data == DictGet(call.server.json, "data", EmptyDict)
            states == DictGet(data, "states", <<>>)
            devices == DictGet(data, "thermo-devices", <<>>)
        IN  /\ call.exc = NoException
            /\ Len(call.sent) = 1
            /\ call.sent[1].url \in ThermoDevicesUrls
            /\ DOMAIN call.ret = 1..Len(states)
            /\ \A n \in 1..Len(states) :
                  LET entry == call.ret[n]
                      id == states[n]["object-device-id"]
                      same == {i \in 1..Len(devices) :
                                  devices[i]["object-device-id"] = id}
                  IN  /\ DOMAIN entry = {"object-device-id", "name", "temperature",
                                         "last-temperature-time", "thermo-device",
                                         "state"}
                      /\ entry["object-device-id"] = id
                      /\ entry["state"] = states[n]
                      /\ entry["temperature"] =
                            IF "temperature" \in DOMAIN states[n]
                            THEN states[n]["temperature"] ELSE None
                      /\ entry["last-temperature-time"] =
                            IF "last-temperature-time" \in DOMAIN states[n]
                            THEN states[n]["last-temperature-time"] ELSE None
                      /\ same = {} =>
                            entry["name"] = "" /\ entry["thermo-device"] = EmptyDict
                      /\ same # {} =>
                            \E i \in same :
                                /\ \A k \in same : k <= i
                                /\ entry["thermo-device"] = devices[i]
                                /\ entry["name"] =
                                      IF "name" \in DOMAIN devices[i]
                                      THEN devices[i]["name"] ELSE ""

\* the states of TH-2 and TH-1 came with the details of TH-1 only: the result
\* has the entry of TH-2, without name and device, before that of TH-1, named
\* Hall
C20_Witness ==
    /\ Done("get_thermo_devices")
    /\ call.server.status_code = 200
    /\ Len(call.ret) = 2
    /\ call.ret[1]["object-device-id"] = "TH-2"
    /\ call.ret[1]["name"] = ""
    /\ call.ret[1]["thermo-device"] = EmptyDict
    /\ call.ret[1]["temperature"] = None
    /\ call.ret[2]["object-device-id"] = "TH-1"
    /\ call.ret[2]["name"] = "Hall"
    /\ call.ret[2]["temperature"] = "0"
    /\ Len(call.server.json["data"]["thermo-devices"]) = 1

====
